---- MODULE Spec2Model ----
(***************************************************************************)
(* Model of torch/distributed/_symmetric_memory/_autograd.py: the two      *)
(* autograd functions AllToAllVDev2d and AllToAllVDev2dOffset, their       *)
(* class-level state, the invocation contexts that link a forward call to  *)
(* its backward call, and the two collective kernels they invoke.          *)
(*                                                                         *)
(* All workers of the group run the same program in lock step (the         *)
(* collectives block until every peer has made the matching call, and      *)
(* symmetric-memory allocations have the same shape on every worker), so   *)
(* one action models the call made by every worker; the class-level        *)
(* configuration is the same on every worker, tensors are per worker.      *)
(***************************************************************************)
EXTENDS Integers, Sequences, FiniteSets, TLC

(* ------------------------------ bounds --------------------------------- *)
NumWorkers == 2      \* workers in the process group
MaxSplit == 1        \* largest number of rows one worker sends to one peer
MaxLen == 3          \* largest max_output_len passed to init
MaxAlign == 2        \* largest alignment / major_align
MaxCtx == 2          \* forward calls whose backward has not run yet
NumVersions == 2     \* distinguishable upstream gradients

Workers == 1..NumWorkers
Groups == {"g0", "g1"}

(* Optional[T]: <<>> is None, <<v>> is a value. *)
None == <<>>
Some(v) == <<v>>
IsNone(o) == Len(o) = 0
Get(o) == o[1]

Max(a, b) == IF a >= b THEN a ELSE b

(* ------------------------------ tensors -------------------------------- *)
(* A row of a tensor is a tagged value: input row i of worker r, row p of  *)
(* the upstream gradient of worker d (version v), or the content of memory *)
(* that symm_mem.empty returned and nothing has written yet.               *)
XVal(r, i) == [k |-> "x", v |-> 0, w |-> r, p |-> i]
GVal(vv, d, pp) == [k |-> "g", v |-> vv, w |-> d, p |-> pp]
Junk == [k |-> "junk", v |-> 0, w |-> 0, p |-> 0]

(* symm_mem.empty((n, ...)): n rows of unwritten memory on every worker. *)
Empty(n) == [i \in 1..n |-> Junk]
EmptyAll(lens) == [r \in Workers |-> Empty(lens[r])]

(* Rows 0..n-1 of worker r's input tensor / upstream gradient. *)
InputOf(r, n) == [i \in 1..n |-> XVal(r, i - 1)]
GradOf(vv, d, n) == [i \in 1..n |-> GVal(vv, d, i - 1)]

(* ---------------------------- descriptors ------------------------------ *)
(* A split/offset descriptor is <<row 0, row 1>>: counts and offsets. *)
Row0(D) == D[1]
Row1(D) == D[2]

SplitRows == [Workers -> 0..MaxSplit]

AlignUp(x, a) == ((x + a - 1) \div a) * a

(* Offsets implied by the splits: prefix sum, each start rounded up to a  *)
(* multiple of the alignment.                                              *)
RECURSIVE AlignedOffset(_, _, _)
AlignedOffset(splits, a, j) ==
    IF j = 1 THEN 0
    ELSE AlignUp(AlignedOffset(splits, a, j - 1) + splits[j - 1], a)

AlignedOffsets(splits, a) == [j \in Workers |-> AlignedOffset(splits, a, j)]

(* Rows a buffer needs to hold every non-empty chunk of a descriptor. *)
RECURSIVE ExtentUpTo(_, _, _)
ExtentUpTo(splits, offs, j) ==
    IF j = 0 THEN 0
    ELSE Max(ExtentUpTo(splits, offs, j - 1),
             IF splits[j] > 0 THEN offs[j] + splits[j] ELSE 0)

Extent(splits, offs) == ExtentUpTo(splits, offs, NumWorkers)

(* ------------------------------ kernels -------------------------------- *)
(* The physical exchange both kernels perform. Worker s sends the chunk   *)
(* inSplits[s][d] rows long that starts at row inOffs[s][d] of its input   *)
(* to worker d; worker d places the chunks it receives in source order,    *)
(* each start rounded up to a multiple of align. The result holds the      *)
(* output buffers, the output descriptors and whether the kernel faulted   *)
(* (a chunk outside its input or output buffer).                           *)
Shuffle(inBufs, inSplits, inOffs, outBufs, align) ==
    LET outSplits == [d \in Workers |-> [s \in Workers |-> inSplits[s][d]]]
        outOffs == [d \in Workers |-> AlignedOffsets(outSplits[d], align)]
        src(d, pos) == {s \in Workers :
                           /\ outOffs[d][s] <= pos
                           /\ pos < outOffs[d][s] + outSplits[d][s]}
        faulted ==
            \/ \E r \in Workers : Extent(inSplits[r], inOffs[r]) > Len(inBufs[r])
            \/ \E d \in Workers : Extent(outSplits[d], outOffs[d]) > Len(outBufs[d])
    IN  [fault |-> faulted,
         out |-> IF faulted THEN outBufs
                 ELSE [d \in Workers |->
                        [i \in 1..Len(outBufs[d]) |->
                           IF src(d, i - 1) = {} THEN outBufs[d][i]
                           ELSE LET s == CHOOSE x \in src(d, i - 1) : TRUE
                                IN  inBufs[s][inOffs[s][d] + (i - 1 - outOffs[d][s]) + 1]]],
         desc |-> [d \in Workers |-> <<outSplits[d], outOffs[d]>>]]

(* torch.ops.symm_mem.all_to_all_vdev_2d: splits only; the input chunks   *)
(* are dense, the output placement is aligned to major_align (1 if None).  *)
all_to_all_vdev_2d(input, out, in_splits, group_name, major_align) ==
    Shuffle(input, in_splits,
            [r \in Workers |-> AlignedOffsets(in_splits[r], 1)],
            out,
            IF IsNone(major_align) THEN 1 ELSE Get(major_align))

(* torch.ops.symm_mem.all_to_all_vdev_2d_offset: explicit input splits and *)
(* offsets; the output is dense.                                           *)
all_to_all_vdev_2d_offset(input, out, in_splits_offsets, group_name) ==
    Shuffle(input,
            [r \in Workers |-> Row0(in_splits_offsets[r])],
            [r \in Workers |-> Row1(in_splits_offsets[r])],
            out, 1)

(* ------------------------------- state --------------------------------- *)
VARIABLES
    A_max_output_len,   \* AllToAllVDev2d.max_output_len: Optional[int]
    A_grad_output_buf,  \* AllToAllVDev2d.grad_output_buf: Optional[buffer]
    B_max_output_len,   \* AllToAllVDev2dOffset.max_output_len
    B_alignment,        \* AllToAllVDev2dOffset.alignment
    B_grad_output_buf,  \* AllToAllVDev2dOffset.grad_output_buf
    ctxs,               \* invocation contexts of forwards awaiting backward
    last,               \* the call made last: arguments, effects, outcome
    env                 \* the calling program: which calls it makes, on what

vars == <<A_max_output_len, A_grad_output_buf, B_max_output_len, B_alignment,
          B_grad_output_buf, ctxs, last, env>>

A_state == <<A_max_output_len, A_grad_output_buf>>
B_state == <<B_max_output_len, B_alignment, B_grad_output_buf>>

(* ---------------------------- calling programs ------------------------- *)
(* The program that drives the two functions: which of them it uses, the  *)
(* split matrices, groups, alignments and gradients it passes, how it      *)
(* lays out the chunks of an input it describes by explicit offsets, and   *)
(* how many forwards it keeps in flight before running their backwards.    *)
Uniform == [r \in Workers |-> [d \in Workers |-> MaxSplit]]
Shift == [r \in Workers |-> [d \in Workers |-> IF d = (r % NumWorkers) + 1 THEN MaxSplit ELSE 0]]
(* Split matrices in which the odd-numbered workers send alike and the    *)
(* even-numbered workers send alike (every matrix, for two workers).       *)
PairedSplits == {[r \in Workers |-> IF r % 2 = 1 THEN a ELSE b] :
                    a \in SplitRows, b \in SplitRows}
Aligns == 1..MaxAlign
InitLens == {n \in {MaxLen - 1, MaxLen} : n >= 1}
CtxSlots == 1..MaxCtx

(* A training loop on one function: re-configuration, gradients of        *)
(* different content and length, one forward in flight.                    *)
Loop(c) == [uses |-> {c}, splits |-> {Uniform, Shift}, groups |-> {"g0"},
            aligns |-> {MaxAlign}, versions |-> 1..NumVersions,
            layouts |-> Aligns, lens |-> InitLens, direct |-> {},
            slots |-> {1}, once |-> FALSE]
(* Several forwards in flight on one function, on two groups. *)
Interleaved(c) == [uses |-> {c}, splits |-> {Uniform, Shift}, groups |-> Groups,
                   aligns |-> {MaxAlign}, versions |-> {1},
                   layouts |-> {MaxAlign}, lens |-> {MaxLen}, direct |-> {},
                   slots |-> CtxSlots, once |-> FALSE]
(* Both functions in one program, which also runs a backward on a        *)
(* context no forward has saved anything in.                               *)
Both == [uses |-> {"A", "B"}, splits |-> {Uniform}, groups |-> {"g0"},
         aligns |-> {MaxAlign}, versions |-> {1},
         layouts |-> {MaxAlign}, lens |-> {MaxLen}, direct |-> {1},
         slots |-> {1}, once |-> FALSE]
(* A first forward right after init and then its backward, over the      *)
(* paired split matrices and every alignment.                              *)
RoundTrip(c) == [uses |-> {c}, splits |-> PairedSplits, groups |-> {"g0"},
                 aligns |-> Aligns, versions |-> {1},
                 layouts |-> Aligns, lens |-> {MaxLen}, direct |-> {},
                 slots |-> {1}, once |-> TRUE]

ProgramNames == {"loopA", "loopB", "interA", "interB", "both", "rtA", "rtB"}
Programs == [n \in ProgramNames |->
    CASE n = "loopA" -> Loop("A") [] n = "loopB" -> Loop("B")
      [] n = "interA" -> Interleaved("A") [] n = "interB" -> Interleaved("B")
      [] n = "both" -> Both
      [] n = "rtA" -> RoundTrip("A") [] n = "rtB" -> RoundTrip("B")]
Prog == Programs[env]
MajorAligns == {None} \cup {Some(a) : a \in Prog.aligns}
MayForward(c) ==
    /\ c \in Prog.uses
    /\ Prog.once => /\ last.op \in {"none", "init"}
                    /\ IsNone(IF c = "A" THEN A_grad_output_buf ELSE B_grad_output_buf)

FreeSlots == {k \in Prog.slots : IsNone(ctxs[k])}
LiveSlots(c) == {k \in CtxSlots : ~IsNone(ctxs[k]) /\ Get(ctxs[k]).cls = c}

(* Identity of a symmetric-memory allocation: one not held by any buffer  *)
(* that is still referenced (a gradient buffer, a forward's output).       *)
LiveIds ==
    {Get(b).id : b \in {x \in {A_grad_output_buf, B_grad_output_buf} : ~IsNone(x)}}
    \cup {Get(ctxs[k]).output_id : k \in {j \in CtxSlots : ~IsNone(ctxs[j])}}
FreshId == CHOOSE i \in 1..(MaxCtx + 3) : i \notin LiveIds /\ \A j \in 1..(i - 1) : j \in LiveIds

RECURSIVE RowSumUpTo(_, _)
RowSumUpTo(splits, j) == IF j = 0 THEN 0 ELSE RowSumUpTo(splits, j - 1) + splits[j]
RowSum(splits) == RowSumUpTo(splits, NumWorkers)

NoCall == [cls |-> "none", op |-> "none", result |-> "ok", allocs |-> 0,
           kernel |-> None, saved |-> FALSE, ctx |-> None, ret |-> None,
           grad |-> None]

Init ==
    /\ A_max_output_len = None
    /\ A_grad_output_buf = None
    /\ B_max_output_len = None
    /\ B_alignment = None
    /\ B_grad_output_buf = None
    /\ ctxs = [k \in CtxSlots |-> None]
    /\ last = NoCall
    /\ env \in ProgramNames

(* What a forward leaves for its backward (saved, group_name,            *)
(* input_shape), and what the caller holds of it: the routing it passed,   *)
(* the output and the descriptor it got back.                              *)
NewCtx(c, saved, group_name, input, routing, output_id, res) ==
    [cls |-> c, saved |-> saved, group_name |-> group_name, routing |-> routing,
     input_shape |-> [r \in Workers |-> Len(input[r])],
     output_id |-> output_id, output |-> res.out, returned |-> res.desc]

(* The upstream gradient autograd passes to backward has the shape of the *)
(* output the forward returned.                                            *)
GradOutput(vv, n) == [d \in Workers |-> GradOf(vv, d, n)]

(* buf.narrow(0, 0, n).copy_(grad_output) *)
NarrowCopy(buf, grad_output, n) ==
    [buf EXCEPT !.data = [r \in Workers |->
        [i \in 1..Len(buf.data[r]) |->
            IF i <= n THEN grad_output[r][i] ELSE buf.data[r][i]]]]

(* ----------------------------- AllToAllVDev2d -------------------------- *)
A_init(max_output_len) ==
    /\ A_max_output_len' = Some(max_output_len)
    /\ last' = [NoCall EXCEPT !.cls = "A", !.op = "init"]
    /\ UNCHANGED <<A_grad_output_buf, B_state, ctxs, env>>

(* Variant: the gradient buffer is allocated on every backward. *)
A_grad_buf_absent_always == TRUE

(* `if AllToAllVDev2d.grad_output_buf is None` *)
A_grad_buf_absent == IsNone(A_grad_output_buf)

(* symm_mem.empty(AllToAllVDev2d.max_output_len, ...) *)
A_new_grad_buf ==
    [id |-> FreshId, data |-> EmptyAll([r \in Workers |-> Get(A_max_output_len)])]

(* `if AllToAllVDev2d.max_output_len is None: raise RuntimeError` *)
A_not_configured == IsNone(A_max_output_len)

(* Variant: forward keeps one output buffer and hands it out again. *)
A_forward_output_reused ==
    [id |-> IF LiveSlots("A") # {}
            THEN Get(ctxs[CHOOSE k \in LiveSlots("A") : TRUE]).output_id
            ELSE FreshId,
     data |-> EmptyAll([r \in Workers |-> Get(A_max_output_len)])]

(* The output buffer of a forward call: symm_mem.empty of max_output_len rows. *)
A_forward_output ==
    [id |-> FreshId, data |-> EmptyAll([r \in Workers |-> Get(A_max_output_len)])]

(* Variant: forward saves offsets it recomputes from the splits row. *)
A_forward_saved_recomputed(out_splits_offsets) ==
    [r \in Workers |-> <<Row0(out_splits_offsets[r]),
                         AlignedOffsets(Row0(out_splits_offsets[r]), 1)>>]

(* ctx.save_for_backward(out_splits_offsets) *)
A_forward_saved(out_splits_offsets) == out_splits_offsets

(* The kernel invocation of forward. *)
A_forward_call(in_splits, group_name, major_align) ==
    [op |-> "all_to_all_vdev_2d",
     routing |-> [r \in Workers |-> <<in_splits[r]>>],
     group_name |-> group_name, major_align |-> major_align]

(* Variant: the descriptor buffer is allocated before the check. *)
A_forward_raise_after_alloc ==
    /\ last' = [NoCall EXCEPT !.cls = "A", !.op = "forward",
                              !.result = "RuntimeError", !.allocs = 1]
    /\ UNCHANGED <<A_state, B_state, ctxs, env>>

(* raise RuntimeError("Please set max output length ...") *)
A_forward_raise ==
    /\ last' = [NoCall EXCEPT !.cls = "A", !.op = "forward",
                              !.result = "RuntimeError"]
    /\ UNCHANGED <<A_state, B_state, ctxs, env>>

(* Variant: forward already allocates the gradient buffer. *)
A_forward_frame_eager ==
    /\ A_grad_output_buf' = IF A_grad_buf_absent THEN Some(A_new_grad_buf)
                            ELSE A_grad_output_buf
    /\ UNCHANGED <<A_max_output_len, B_state, env>>

(* forward assigns no class attribute. *)
A_forward_frame == UNCHANGED <<A_state, B_state, env>>

A_forward(in_splits, group_name, major_align) ==
    IF A_not_configured
    THEN A_forward_raise
    ELSE /\ FreeSlots # {}
         /\ A_forward_frame
         /\ LET input == [r \in Workers |-> InputOf(r, RowSum(in_splits[r]))]
                output == A_forward_output
                res == all_to_all_vdev_2d(input, output.data, in_splits,
                                          group_name, major_align)
                call == A_forward_call(in_splits, group_name, major_align)
                done == [NoCall EXCEPT !.cls = "A", !.op = "forward",
                                       !.allocs = 2, !.kernel = Some(call)]
                slot == CHOOSE k \in FreeSlots : \A j \in FreeSlots : k <= j
            IN  IF res.fault
                THEN /\ last' = [done EXCEPT !.result = "RuntimeError"]
                     /\ UNCHANGED ctxs
                ELSE /\ ctxs' = [ctxs EXCEPT ![slot] =
                                   Some(NewCtx("A", A_forward_saved(res.desc),
                                               group_name, input, call.routing,
                                               output.id, res))]
                     /\ last' = [done EXCEPT
                                   !.saved = TRUE,
                                   !.ret = Some([id |-> output.id,
                                                 output |-> res.out,
                                                 desc |-> res.desc])]

(* Variant: backward keeps the saved splits and assumes dense offsets. *)
A_backward_routing_dense(ctx) ==
    [r \in Workers |-> <<Row0(ctx.saved[r]), AlignedOffsets(Row0(ctx.saved[r]), 1)>>]

(* The routing input handed to the inverse kernel: the saved descriptor. *)
A_backward_routing(ctx) == ctx.saved

(* The kernel invocation of backward. *)
A_backward_call(ctx) ==
    [op |-> "all_to_all_vdev_2d_offset", routing |-> A_backward_routing(ctx),
     group_name |-> ctx.group_name, major_align |-> None]

(* k = 0: a context no forward has saved anything in. *)
A_backward(k, vv, n) ==
    LET absent == A_grad_buf_absent
        base == [NoCall EXCEPT !.cls = "A", !.op = "backward",
                               !.grad = Some([v |-> vv, len |-> n]),
                               !.ctx = IF k = 0 THEN None ELSE ctxs[k]]
    IN
    /\ k # 0 => k \in LiveSlots("A")
    /\ UNCHANGED <<A_max_output_len, B_state, env>>
    /\ ctxs' = IF k = 0 THEN ctxs ELSE [ctxs EXCEPT ![k] = None]
    /\ IF absent /\ IsNone(A_max_output_len)
       THEN /\ last' = [base EXCEPT !.result = "AssertionError"]
            /\ UNCHANGED A_grad_output_buf
       ELSE
       LET buf0 == IF absent THEN A_new_grad_buf ELSE Get(A_grad_output_buf)
           made == IF absent THEN 1 ELSE 0
       IN  IF n > Len(buf0.data[1])
           THEN /\ last' = [base EXCEPT !.result = "RuntimeError", !.allocs = made]
                /\ A_grad_output_buf' = Some(buf0)
           ELSE
           LET buf1 == NarrowCopy(buf0, GradOutput(vv, n), n)
           IN  /\ A_grad_output_buf' = Some(buf1)
               /\ IF k = 0
                  THEN last' = [base EXCEPT !.result = "ValueError", !.allocs = made]
                  ELSE
                  LET ctx == Get(ctxs[k])
                      call == A_backward_call(ctx)
                      grad_input == EmptyAll(ctx.input_shape)
                      res == all_to_all_vdev_2d_offset(buf1.data, grad_input,
                                                       call.routing,
                                                       call.group_name)
                      done == [base EXCEPT !.allocs = made + 2,
                                           !.kernel = Some(call)]
                  IN  last' = IF res.fault
                              THEN [done EXCEPT !.result = "RuntimeError"]
                              ELSE [done EXCEPT !.ret = Some(res.out)]

(* --------------------------- AllToAllVDev2dOffset ---------------------- *)
(* Variant: init sets max_output_len on the other class. *)
B_init_other_class(max_output_len, alignment) ==
    /\ A_max_output_len' = Some(max_output_len)
    /\ B_alignment' = Some(alignment)
    /\ last' = [NoCall EXCEPT !.cls = "B", !.op = "init"]
    /\ UNCHANGED <<B_max_output_len, B_grad_output_buf, A_grad_output_buf, ctxs, env>>

B_init(max_output_len, alignment) ==
    /\ B_max_output_len' = Some(max_output_len)
    /\ B_alignment' = Some(alignment)
    /\ last' = [NoCall EXCEPT !.cls = "B", !.op = "init"]
    /\ UNCHANGED <<B_grad_output_buf, A_state, ctxs, env>>

(* `if AllToAllVDev2dOffset.grad_output_buf is None` *)
B_grad_buf_absent == IsNone(B_grad_output_buf)

B_new_grad_buf ==
    [id |-> FreshId, data |-> EmptyAll([r \in Workers |-> Get(B_max_output_len)])]

(* `if AllToAllVDev2dOffset.max_output_len is None: raise RuntimeError` *)
B_not_configured == IsNone(B_max_output_len)

B_forward_output ==
    [id |-> FreshId, data |-> EmptyAll([r \in Workers |-> Get(B_max_output_len)])]

B_forward_saved(out_splits_offsets) == out_splits_offsets

(* The descriptor a caller builds for an input whose chunks it has laid   *)
(* out with every start rounded up to a multiple of `layout`.              *)
CallerDescriptor(splits, layout) ==
    [r \in Workers |-> <<splits[r], AlignedOffsets(splits[r], layout)>>]

(* The kernel invocation of forward. *)
B_forward_call(in_splits_offsets, group_name) ==
    [op |-> "all_to_all_vdev_2d_offset", routing |-> in_splits_offsets,
     group_name |-> group_name, major_align |-> None]

(* raise RuntimeError("Please set max output length ...") *)
B_forward_raise ==
    /\ last' = [NoCall EXCEPT !.cls = "B", !.op = "forward",
                              !.result = "RuntimeError"]
    /\ UNCHANGED <<A_state, B_state, ctxs, env>>

(* forward assigns no class attribute. *)
B_forward_frame == UNCHANGED <<A_state, B_state, env>>

B_forward(in_splits_offsets, group_name) ==
    IF B_not_configured
    THEN B_forward_raise
    ELSE /\ FreeSlots # {}
         /\ B_forward_frame
         /\ LET input == [r \in Workers |->
                            InputOf(r, Extent(Row0(in_splits_offsets[r]),
                                              Row1(in_splits_offsets[r])))]
                output == B_forward_output
                res == all_to_all_vdev_2d_offset(input, output.data,
                                                 in_splits_offsets, group_name)
                call == B_forward_call(in_splits_offsets, group_name)
                done == [NoCall EXCEPT !.cls = "B", !.op = "forward",
                                       !.allocs = 2, !.kernel = Some(call)]
                slot == CHOOSE k \in FreeSlots : \A j \in FreeSlots : k <= j
            IN  IF res.fault
                THEN /\ last' = [done EXCEPT !.result = "RuntimeError"]
                     /\ UNCHANGED ctxs
                ELSE /\ ctxs' = [ctxs EXCEPT ![slot] =
                                   Some(NewCtx("B", B_forward_saved(res.desc),
                                               group_name, input, call.routing,
                                               output.id, res))]
                     /\ last' = [done EXCEPT
                                   !.saved = TRUE,
                                   !.ret = Some([id |-> output.id,
                                                 output |-> res.out,
                                                 desc |-> res.desc])]

(* Variant: backward takes row 1 of the saved descriptor. *)
B_backward_routing_row1(ctx) == [r \in Workers |-> <<Row1(ctx.saved[r])>>]

(* grad_out_splits = grad_out_splits_offsets[0]: row 0 of the saved descriptor. *)
B_backward_routing(ctx) == [r \in Workers |-> <<Row0(ctx.saved[r])>>]

(* Variant: backward passes no alignment. *)
B_backward_align_none == None

(* The alignment handed to the splits-only kernel: the one set by init. *)
B_backward_align == B_alignment

(* The kernel invocation of backward. *)
B_backward_call(ctx) ==
    [op |-> "all_to_all_vdev_2d", routing |-> B_backward_routing(ctx),
     group_name |-> ctx.group_name, major_align |-> B_backward_align]

B_backward(k, vv, n) ==
    LET absent == B_grad_buf_absent
        base == [NoCall EXCEPT !.cls = "B", !.op = "backward",
                               !.grad = Some([v |-> vv, len |-> n]),
                               !.ctx = IF k = 0 THEN None ELSE ctxs[k]]
    IN
    /\ k # 0 => k \in LiveSlots("B")
    /\ UNCHANGED <<B_max_output_len, B_alignment, A_state, env>>
    /\ ctxs' = IF k = 0 THEN ctxs ELSE [ctxs EXCEPT ![k] = None]
    /\ IF absent /\ IsNone(B_max_output_len)
       THEN /\ last' = [base EXCEPT !.result = "AssertionError"]
            /\ UNCHANGED B_grad_output_buf
       ELSE
       LET buf0 == IF absent THEN B_new_grad_buf ELSE Get(B_grad_output_buf)
           made == IF absent THEN 1 ELSE 0
       IN  IF n > Len(buf0.data[1])
           THEN /\ last' = [base EXCEPT !.result = "RuntimeError", !.allocs = made]
                /\ B_grad_output_buf' = Some(buf0)
           ELSE
           LET buf1 == NarrowCopy(buf0, GradOutput(vv, n), n)
           IN  /\ B_grad_output_buf' = Some(buf1)
               /\ IF k = 0
                  THEN last' = [base EXCEPT !.result = "ValueError", !.allocs = made]
                  ELSE
                  LET ctx == Get(ctxs[k])
                      call == B_backward_call(ctx)
                      grad_input == EmptyAll(ctx.input_shape)
                      res == all_to_all_vdev_2d(buf1.data, grad_input,
                                                [r \in Workers |-> call.routing[r][1]],
                                                call.group_name, call.major_align)
                      done == [base EXCEPT !.allocs = made + 2,
                                           !.kernel = Some(call)]
                  IN  last' = IF res.fault
                              THEN [done EXCEPT !.result = "RuntimeError"]
                              ELSE [done EXCEPT !.ret = Some(res.out)]

(* -------------------------------- steps -------------------------------- *)
Next ==
    \/ \E m \in Prog.lens : "A" \in Prog.uses /\ A_init(m)
    \/ \E s \in Prog.splits, g \in Prog.groups, a \in MajorAligns :
          MayForward("A") /\ A_forward(s, g, a)
    \/ \E k \in CtxSlots, vv \in Prog.versions :
          "A" \in Prog.uses /\ A_backward(k, vv, Len(Get(ctxs[k]).output[1]))
    \/ \E vv \in Prog.versions, n \in Prog.direct :
          "A" \in Prog.uses /\ A_backward(0, vv, n)
    \/ \E m \in Prog.lens, a \in Prog.aligns : "B" \in Prog.uses /\ B_init(m, a)
    \/ \E s \in Prog.splits, l \in Prog.layouts, g \in Prog.groups :
          MayForward("B") /\ B_forward(CallerDescriptor(s, l), g)
    \/ \E k \in CtxSlots, vv \in Prog.versions :
          "B" \in Prog.uses /\ B_backward(k, vv, Len(Get(ctxs[k]).output[1]))
    \/ \E vv \in Prog.versions, n \in Prog.direct :
          "B" \in Prog.uses /\ B_backward(0, vv, n)

Spec == Init /\ [][Next]_vars

(* ------------------------------- claims -------------------------------- *)
MaxOutputLen(c) == IF c = "A" THEN A_max_output_len ELSE B_max_output_len
GradOutputBuf(c) == IF c = "A" THEN A_grad_output_buf ELSE B_grad_output_buf
Classes == {"A", "B"}
IsCall(c, o) == last.cls = c /\ last.op = o

(* Every occupied position q of the forward's output on worker d holds an *)
(* input row of some worker, and the returned gradient holds, at that      *)
(* row's original position, the upstream gradient value of (d, q).         *)
RoutedBack(ctx, grad_input, vv) ==
    \A d \in Workers : \A q \in 1..Len(ctx.output[d]) :
        LET x == ctx.output[d][q]
        IN  x.k = "x" =>
              /\ x.p + 1 <= Len(grad_input[x.w])
              /\ grad_input[x.w][x.p + 1] = GVal(vv, d, q - 1)

(* C1: a forward call of either function made while that function's      *)
(* max_output_len is None ends in a RuntimeError, having allocated         *)
(* nothing, invoked no kernel and saved nothing, and leaves the class      *)
(* attributes of both functions and the contexts as they were.             *)
C1_UnconfiguredForwardRaises ==
    [][\A c \in Classes :
          (last'.cls = c /\ last'.op = "forward" /\ IsNone(MaxOutputLen(c)))
          => /\ last'.result = "RuntimeError"
             /\ last'.allocs = 0
             /\ IsNone(last'.kernel)
             /\ ~last'.saved
             /\ UNCHANGED <<A_state, B_state, ctxs>>]_vars

C1_Witness ==
    /\ IsCall("B", "forward") /\ last.result = "RuntimeError"
    /\ IsNone(B_max_output_len) /\ IsNone(B_grad_output_buf)
    /\ ~IsNone(A_max_output_len)

(* The gradient of the last backward fits the gradient buffer of c. *)
GradFits(c) ==
    Get(last.grad).len <= Len(Get(GradOutputBuf(c)).data[1])

(* C2: a backward of AllToAllVDev2d on the context of a forward returns   *)
(* whenever the upstream gradient fits the gradient buffer, and whenever   *)
(* it returns, every row of every worker's input has a gradient, and it is *)
(* the upstream gradient value of the worker and output position at which  *)
(* the forward placed that row.                                            *)
C2_RoundTripA ==
    /\ (IsCall("A", "backward") /\ ~IsNone(last.ctx) /\ GradFits("A"))
          => last.result = "ok"
    /\ (IsCall("A", "backward") /\ last.result = "ok") =>
          LET ctx == Get(last.ctx)
              grad_input == Get(last.ret)
          IN  /\ RoutedBack(ctx, grad_input, Get(last.grad).v)
              /\ \A r \in Workers :
                   /\ Len(grad_input[r]) = ctx.input_shape[r]
                   /\ \A i \in 1..Len(grad_input[r]) :
                        LET g == grad_input[r][i]
                        IN  /\ g.k = "g"
                            /\ ctx.output[g.w][g.p + 1] = XVal(r, i - 1)

(* A round trip with padding in the forward's output and rows crossing    *)
(* between the workers.                                                    *)
C2_Witness ==
    /\ IsCall("A", "backward") /\ last.result = "ok"
    /\ \E d \in Workers :
         /\ \A src \in Workers : Row0(Get(last.ctx).saved[d])[src] > 0
         /\ Row1(Get(last.ctx).saved[d]) # AlignedOffsets(Row0(Get(last.ctx).saved[d]), 1)

(* C3 as stated: whatever offsets the caller's descriptor holds, a        *)
(* backward of AllToAllVDev2dOffset that returns has put at each occupied  *)
(* input position the upstream gradient value of the output position the   *)
(* forward routed it to.                                                   *)
C3_RoundTripB_AnyOffsets ==
    (IsCall("B", "backward") /\ last.result = "ok") =>
        RoutedBack(Get(last.ctx), Get(last.ret), Get(last.grad).v)

(* The caller's offsets are the ones the splits-only kernel derives from  *)
(* the splits with the alignment now configured.                           *)
LayoutMatches(ctx) ==
    \A r \in Workers :
        Row1(ctx.routing[r]) = AlignedOffsets(Row0(ctx.routing[r]), Get(B_alignment))

(* C3 amended: the same, for the descriptors whose offsets row is the     *)
(* layout that the splits-only kernel derives from the splits row and the  *)
(* alignment configured by init; for those the backward returns whenever   *)
(* the upstream gradient fits the gradient buffer.                         *)
C3_RoundTripB_Aligned ==
    (IsCall("B", "backward") /\ ~IsNone(last.ctx) /\ LayoutMatches(Get(last.ctx))) =>
        /\ GradFits("B") => last.result = "ok"
        /\ last.result = "ok" =>
              RoutedBack(Get(last.ctx), Get(last.ret), Get(last.grad).v)

C3_Witness ==
    /\ IsCall("B", "backward") /\ last.result = "ok"
    /\ LayoutMatches(Get(last.ctx))
    /\ Get(B_alignment) > 1
    /\ \E r \in Workers :
         /\ \A d \in Workers : Row0(Get(last.ctx).routing[r])[d] > 0
         /\ \E i \in 1..Len(Get(last.ret)[r]) : Get(last.ret)[r][i].k = "junk"

(* C4: the kernel invocation of AllToAllVDev2d.backward is the one        *)
(* AllToAllVDev2dOffset.forward makes for the gradient, the saved          *)
(* descriptor and the saved group name, and it faults or writes the same   *)
(* values to every occupied position; the invocation of                    *)
(* AllToAllVDev2dOffset.backward is the one AllToAllVDev2d.forward makes   *)
(* for the gradient, row 0 of the saved descriptor, the saved group name   *)
(* and the configured alignment, with the same result.                     *)
SameWritten(result, grad_input, other) ==
    /\ (result = "ok") = ~other.fault
    /\ result = "ok" =>
         \A r \in Workers : \A i \in 1..Len(other.out[r]) :
             other.out[r][i].k # "junk" => Get(grad_input)[r][i] = other.out[r][i]

C4_Duality ==
    /\ (IsCall("A", "backward") /\ ~IsNone(last.kernel)) =>
         LET ctx == Get(last.ctx)
             G == GradOutput(Get(last.grad).v, Get(last.grad).len)
         IN  /\ Get(last.kernel) = B_forward_call(ctx.saved, ctx.group_name)
             /\ SameWritten(last.result, last.ret,
                    all_to_all_vdev_2d_offset(G, EmptyAll(ctx.input_shape),
                                              ctx.saved, ctx.group_name))
    /\ (IsCall("B", "backward") /\ ~IsNone(last.kernel)) =>
         LET ctx == Get(last.ctx)
             G == GradOutput(Get(last.grad).v, Get(last.grad).len)
             splits == [r \in Workers |-> Row0(ctx.saved[r])]
         IN  /\ Get(last.kernel) = A_forward_call(splits, ctx.group_name, B_alignment)
             /\ SameWritten(last.result, last.ret,
                    all_to_all_vdev_2d(G, EmptyAll(ctx.input_shape), splits,
                                       ctx.group_name, B_alignment))

C4_Witness ==
    /\ IsCall("B", "backward") /\ last.result = "ok"
    /\ Get(B_alignment) > 1
    /\ \E r \in Workers : \A d \in Workers : Row0(Get(last.ctx).saved[r])[d] > 0

C6_GradBufSizedToMax ==
    \A c \in Classes :
        ~IsNone(GradOutputBuf(c)) =>
            \A r \in Workers :
                Len(Get(GradOutputBuf(c)).data[r]) = Get(MaxOutputLen(c))

(* C7 as stated: the routing input of the kernel a backward invokes is    *)
(* the descriptor its forward got from the kernel, both rows; the group    *)
(* name and the shape of the returned gradient are that forward's.         *)
C7_DescriptorFidelity ==
    (last.op = "backward" /\ ~IsNone(last.kernel)) =>
        LET ctx == Get(last.ctx)
        IN  /\ Get(last.kernel).routing = ctx.returned
            /\ Get(last.kernel).group_name = ctx.group_name
            /\ last.result = "ok" =>
                 \A r \in Workers : Len(Get(last.ret)[r]) = ctx.input_shape[r]

(* C7 amended: AllToAllVDev2d.backward hands over the forward's           *)
(* descriptor, both rows; AllToAllVDev2dOffset.backward hands over row 0   *)
(* of the forward's descriptor and not the offsets row; group name and     *)
(* gradient shape are that forward's.                                      *)
C7_DescriptorFidelityPerClass ==
    (last.op = "backward" /\ ~IsNone(last.kernel)) =>
        LET ctx == Get(last.ctx)
        IN  /\ last.cls = "A" => Get(last.kernel).routing = ctx.returned
            /\ last.cls = "B" =>
                 Get(last.kernel).routing = [r \in Workers |-> <<Row0(ctx.returned[r])>>]
            /\ Get(last.kernel).group_name = ctx.group_name
            /\ last.result = "ok" =>
                 \A r \in Workers : Len(Get(last.ret)[r]) = ctx.input_shape[r]

(* forward1, forward2, backward1: the other forward's context, with a     *)
(* different descriptor and group, is still waiting.                       *)
C7_Witness ==
    /\ IsCall("A", "backward") /\ last.result = "ok"
    /\ \E k \in LiveSlots("A") :
         /\ Get(ctxs[k]).returned # Get(last.ctx).returned
         /\ Get(ctxs[k]).group_name # Get(last.ctx).group_name
         /\ Get(ctxs[k]).input_shape # Get(last.ctx).input_shape

(* C8 as stated: a call that fails leaves the class attributes of both    *)
(* functions as they were.                                                 *)
C8_AllOrNothing ==
    [][last'.result # "ok" => UNCHANGED <<A_state, B_state>>]_vars

(* C8 amended: a call that fails leaves max_output_len and alignment as   *)
(* they were; a failed forward and a backward failing its not-configured   *)
(* assertion also leave grad_output_buf as it was; any other failed        *)
(* backward has allocated grad_output_buf if it was absent, and one that   *)
(* fails after the copy has overwritten its leading rows.                  *)
C8_FailureKeepsConfiguration ==
    [][last'.result # "ok" =>
         /\ UNCHANGED <<A_max_output_len, B_max_output_len, B_alignment>>
         /\ (last'.op = "forward" \/ last'.result = "AssertionError")
              => UNCHANGED <<A_grad_output_buf, B_grad_output_buf>>
         /\ (last'.op = "backward" /\ last'.result # "AssertionError")
              => /\ last'.cls = "A" => ~IsNone(A_grad_output_buf')
                 /\ last'.cls = "B" => ~IsNone(B_grad_output_buf')]_vars

(* A forward whose kernel faulted, with a gradient buffer in place. *)
C8_Witness ==
    /\ last.op = "forward" /\ last.result = "RuntimeError"
    /\ ~IsNone(last.kernel)
    /\ ~IsNone(GradOutputBuf(last.cls))

(* C9: a call on one function leaves the class attributes of the other as *)
(* they were, and the two gradient buffers are never the same allocation.  *)
C9_Independent ==
    /\ [](~IsNone(A_grad_output_buf) /\ ~IsNone(B_grad_output_buf)
            => Get(A_grad_output_buf).id # Get(B_grad_output_buf).id)
    /\ [][/\ last'.cls = "A" => UNCHANGED B_state
          /\ last'.cls = "B" => UNCHANGED A_state]_vars

C9_Witness ==
    /\ ~IsNone(A_grad_output_buf) /\ ~IsNone(B_grad_output_buf)
    /\ IsCall("B", "init")
    /\ B_max_output_len = A_max_output_len

(* C10: once a function's grad_output_buf exists it stays the same        *)
(* allocation with the same number of rows; only a backward of that        *)
(* function writes it, and only its first grad_output.shape[0] rows; it    *)
(* comes into existence only in a backward of that function.               *)
GradBufKept(c, buf, bufNext, call) ==
    /\ (IsNone(buf) /\ ~IsNone(bufNext)) =>
          /\ call.cls = c /\ call.op = "backward"
          /\ call.allocs \in {1, 3}
    /\ ~IsNone(buf) =>
          /\ ~IsNone(bufNext)
          /\ Get(bufNext).id = Get(buf).id
          /\ call.cls = c /\ call.op = "backward" => call.allocs \in {0, 2}
          /\ \A r \in Workers :
               /\ Len(Get(bufNext).data[r]) = Len(Get(buf).data[r])
               /\ \A i \in 1..Len(Get(buf).data[r]) :
                    (~(call.cls = c /\ call.op = "backward") \/ i > Get(call.grad).len)
                       => Get(bufNext).data[r][i] = Get(buf).data[r][i]

C10_GradBufAllocatedOnce ==
    [][/\ GradBufKept("A", A_grad_output_buf, A_grad_output_buf', last')
       /\ GradBufKept("B", B_grad_output_buf, B_grad_output_buf', last')]_vars

(* A backward that wrote a prefix and left an older gradient behind it. *)
C10_Witness ==
    /\ IsCall("A", "backward") /\ last.result = "ok"
    /\ LET buf == Get(A_grad_output_buf)
           n == Get(last.grad).len
       IN  /\ n < Len(buf.data[1])
           /\ buf.data[1][n + 1].k = "g"
           /\ buf.data[1][n + 1].v # Get(last.grad).v

====
